---- MODULE Spec2Model ----
(***************************************************************************)
(* Model of the buffered, length-framed stdout/stderr helper of            *)
(* SciMarkdown's Python language helper (BufferedIOHelper).                *)
(*                                                                         *)
(* Two revisions of the helper are in the repository:                      *)
(*   "current"  src/src/lang_helpers/python.py                             *)
(*   "legacy"   src/lang_helpers/python.py                                 *)
(* A behaviour starts by fixing the revision that is loaded and the        *)
(* platform it runs on, and then performs calls on the two helper objects  *)
(* installed as sys.stdout and sys.stderr.                                 *)
(*                                                                         *)
(* Bytes are integers 0..255, text is a sequence of Unicode code points.   *)
(***************************************************************************)
EXTENDS Integers, Sequences, FiniteSets, TLC

VARIABLES
    rev,        \* which revision of the helper module was imported
    platform,   \* the platform record (size of C unsigned long, line ending)
    buffer,     \* buffer[c]: self.buffer of the helper installed on channel c
    fd,         \* fd[c]: bytes that reached the file descriptor of channel c
    stdio,      \* pending bytes of the binary file object opened by os.fdopen
    text_io,    \* text_io[c]: pending bytes of the wrapped TextIOWrapper
    pc,         \* position of the (single) thread of control
    self,       \* channel whose real_flush is in progress, or "none"
    it,         \* index of the list iterator of the payload loop
    ret,        \* value returned by the last completed call (<<>> is None)
    exc,        \* exception being propagated, or "none"
    status,     \* process exit status (-1 while the process runs)
    oplog,      \* history: oplog[c], the calls made on channel c, in order
    lastEmit,   \* history: lastEmit[c], where the transport of c stood when
                \* the latest real_flush on c was called, and how it ended
    broken,     \* history: broken[c], a real_flush on c was aborted by OSError
    faults      \* history: number of transport failures so far

vars == <<rev, platform, buffer, fd, stdio, text_io, pc, self, it, ret, exc,
          status, oplog, lastEmit, broken, faults>>

-----------------------------------------------------------------------------
(* Bounds of the model *)

\* calls (write, flush, real_flush) made on the two helpers together
MaxOps == 4

\* real_flush calls that meet a transport failure
MaxFaults == 1

-----------------------------------------------------------------------------
(* Platform and data *)

Channels == {"stdout", "stderr"}

Revisions == {"current", "legacy"}

\* struct.pack('L', ...) uses the native size of C unsigned long
LongSizePosix == 8
LongSizeNt == 4

Platforms ==
    { [os |-> "posix", longsize |-> LongSizePosix, crlf |-> FALSE],
      [os |-> "nt",    longsize |-> LongSizeNt,    crlf |-> TRUE] }

Text(cps) == [kind |-> "str", v |-> cps]
Bytes(bs) == [kind |-> "bytes", v |-> bs]
NoArg == [kind |-> "none", v |-> <<>>]
None == <<>>

\* "hé" (e-acute takes two bytes in UTF-8), the empty string, and binary
\* data holding a NUL byte and a newline byte
DataValues == { Text(<<104, 233>>), Text(<<>>), Bytes(<<0, 10>>) }

\* the report the default excepthook prints for an unhandled error: "E\n"
TracebackText == Text(<<69, 10>>)

-----------------------------------------------------------------------------
(* Pure functions *)

\* a variant of the check in which every code point is taken as encodable
\* (an error handler that lets lone surrogates through)
AlwaysEncodable(cps) == TRUE

\* str.encode('utf-8') refuses lone surrogates (UnicodeEncodeError)
Encodable(cps) == \A i \in 1..Len(cps) : ~(cps[i] >= 55296 /\ cps[i] <= 57343)

EncodeChar(cp) ==
    IF cp < 128 THEN <<cp>>
    ELSE IF cp < 2048 THEN <<192 + (cp \div 64), 128 + (cp % 64)>>
    ELSE IF cp < 65536
        THEN <<224 + (cp \div 4096), 128 + ((cp \div 64) % 64), 128 + (cp % 64)>>
    ELSE <<240 + (cp \div 262144), 128 + ((cp \div 4096) % 64),
           128 + ((cp \div 64) % 64), 128 + (cp % 64)>>

RECURSIVE Utf8Encode(_)
Utf8Encode(cps) ==
    IF cps = <<>> THEN <<>> ELSE EncodeChar(Head(cps)) \o Utf8Encode(Tail(cps))

\* struct.pack('L', n) writes the w low-order base-256 digits of n in native
\* (little-endian) order, and raises struct.error unless 0 <= n < 2^(8*w)
RECURSIVE ShiftRight(_, _)
ShiftRight(n, w) == IF w = 0 THEN n ELSE ShiftRight(n \div 256, w - 1)

PackFits(n, w) == n >= 0 /\ ShiftRight(n, w) = 0

RECURSIVE PackL(_, _)
PackL(n, w) == IF w = 0 THEN <<>> ELSE <<n % 256>> \o PackL(n \div 256, w - 1)

\* sum(len(s) for s in self.buffer)
RECURSIVE SumLen(_)
SumLen(pieces) ==
    IF pieces = <<>> THEN 0 ELSE Len(Head(pieces)) + SumLen(Tail(pieces))

RECURSIVE Concat(_)
Concat(pieces) ==
    IF pieces = <<>> THEN <<>> ELSE Head(pieces) \o Concat(Tail(pieces))

-----------------------------------------------------------------------------
(* Initial state: module import, lines 44-45 *)

Init ==
    /\ rev \in Revisions
    /\ platform \in Platforms
    /\ buffer = [c \in Channels |-> <<>>]
    /\ fd = [c \in Channels |-> <<>>]
    /\ stdio = <<>>
    /\ text_io = [c \in Channels |-> <<>>]
    /\ pc = "idle"
    /\ self = "none"
    /\ it = 0
    /\ ret = None
    /\ exc = "none"
    /\ status = -1
    /\ oplog = [c \in Channels |-> <<>>]
    /\ lastEmit = [c \in Channels |-> [mark |-> 0, outcome |-> "none"]]
    /\ broken = [c \in Channels |-> FALSE]
    /\ faults = 0

\* the caller may make another call
CanCall == pc = "idle" /\ Len(oplog["stdout"]) + Len(oplog["stderr"]) < MaxOps

Logged(c, op, arg) ==
    [oplog EXCEPT ![c] = Append(@, [op |-> op, arg |-> arg])]

-----------------------------------------------------------------------------
(* Current revision: src/src/lang_helpers/python.py *)

\* lines 14-17: the bytes form of the argument
ToBytes(s) == IF s.kind = "bytes" THEN s.v ELSE Utf8Encode(s.v)

\* a variant of line 18 that puts the new piece in front
PrependPiece(buf, b) == <<b>> \o buf

\* line 18
BufferAppend(buf, b) == Append(buf, b)

\* a variant of line 20 that returns len(b), the encoded size
ByteCountReturn(s) == <<Len(ToBytes(s))>>

\* line 20
WriteReturn(s) == <<Len(s.v)>>

\* a variant of lines 9 and 18 in which the list is one object shared by
\* both helpers (a class attribute), so a write lands in both buffers
WriteSharedBuffer(c, s) ==
    /\ rev = "current"
    /\ CanCall
    /\ oplog' = Logged(c, "write", s)
    /\ buffer' = [d \in Channels |-> BufferAppend(buffer[d], ToBytes(s))]
    /\ ret' = WriteReturn(s)
    /\ UNCHANGED <<rev, platform, fd, stdio, text_io, pc, self, it, exc, status,
                   lastEmit, broken, faults>>

Write(c, s) ==
    /\ rev = "current"
    /\ CanCall
    /\ oplog' = Logged(c, "write", s)
    /\ IF s.kind = "str" /\ ~Encodable(s.v)
          THEN /\ exc' = "UnicodeEncodeError"
               /\ pc' = "raised"
               /\ UNCHANGED <<buffer, ret>>
          ELSE /\ buffer' = [buffer EXCEPT ![c] = BufferAppend(@, ToBytes(s))]
               /\ ret' = WriteReturn(s)
               /\ UNCHANGED <<exc, pc>>
    /\ UNCHANGED <<rev, platform, fd, stdio, text_io, self, it, status>>
    /\ UNCHANGED <<lastEmit, broken, faults>>

\* variants of lines 22-24: a flush that drops the buffer, and a flush that
\* behaves like an ordinary stream flush and releases the buffer unframed
FlushDiscards(buf) == <<>>
FlushReleases(t, buf) == t \o Concat(buf)

\* lines 22-24: nothing happens to the buffer or to the transport
FlushBuffer(buf) == buf
FlushTransport(t, buf) == t

Flush(c) ==
    /\ rev = "current"
    /\ CanCall
    /\ oplog' = Logged(c, "flush", NoArg)
    /\ buffer' = [buffer EXCEPT ![c] = FlushBuffer(@)]
    /\ fd' = [fd EXCEPT ![c] = FlushTransport(@, buffer[c])]
    /\ ret' = None
    /\ UNCHANGED <<rev, platform, stdio, text_io, pc, self, it, exc, status>>
    /\ UNCHANGED <<lastEmit, broken, faults>>

\* line 31: the call, and os.fdopen(self.text_io.fileno(), "wb", closefd=False)
RealFlush(c) ==
    /\ rev = "current"
    /\ CanCall
    /\ oplog' = Logged(c, "real_flush", NoArg)
    /\ self' = c
    /\ stdio' = <<>>
    /\ pc' = "pack"
    /\ UNCHANGED <<rev, platform, buffer, fd, text_io, it, ret, exc, status>>
    /\ lastEmit' = [lastEmit EXCEPT ![c] = [mark |-> Len(fd[c]), outcome |-> "running"]]
    /\ UNCHANGED <<broken, faults>>

\* a variant of line 32 that packs len(self.buffer)
PieceCount(buf) == Len(buf)

\* line 32: the length that is packed
DeclaredLength(buf) == SumLen(buf)

\* line 32: stdio.write(struct.pack('L', sum(len(s) for s in self.buffer)))
PackLength ==
    /\ rev = "current"
    /\ pc = "pack"
    /\ IF PackFits(DeclaredLength(buffer[self]), platform.longsize)
          THEN /\ stdio' = stdio \o PackL(DeclaredLength(buffer[self]),
                                          platform.longsize)
               /\ pc' = "flush_len"
               /\ UNCHANGED exc
          ELSE /\ exc' = "struct.error"
               /\ pc' = "close"
               /\ UNCHANGED stdio
    /\ UNCHANGED <<rev, platform, buffer, fd, text_io, self, it, ret, status,
                   oplog>>
    /\ UNCHANGED <<lastEmit, broken, faults>>

\* line 33: stdio.flush()
FlushLength ==
    /\ rev = "current"
    /\ pc = "flush_len"
    /\ fd' = [fd EXCEPT ![self] = @ \o stdio]
    /\ stdio' = <<>>
    /\ it' = 1
    /\ pc' = "payload"
    /\ UNCHANGED <<rev, platform, buffer, text_io, self, ret, exc, status, oplog>>
    /\ UNCHANGED <<lastEmit, broken, faults>>

\* lines 35-36: one iteration of `for binary_data in self.buffer`
\* a variant of lines 35-36 that walks the list from its end
WritePieceReversed ==
    /\ rev = "current"
    /\ pc = "payload"
    /\ it <= Len(buffer[self])
    /\ stdio' = stdio \o buffer[self][Len(buffer[self]) + 1 - it]
    /\ it' = it + 1
    /\ UNCHANGED <<rev, platform, buffer, fd, text_io, pc, self, ret, exc,
                   status, oplog, lastEmit, broken, faults>>

WritePiece ==
    /\ rev = "current"
    /\ pc = "payload"
    /\ it <= Len(buffer[self])
    /\ stdio' = stdio \o buffer[self][it]
    /\ it' = it + 1
    /\ UNCHANGED <<rev, platform, buffer, fd, text_io, pc, self, ret, exc,
                   status, oplog>>
    /\ UNCHANGED <<lastEmit, broken, faults>>

\* line 35: the iterator is exhausted
EndLoop ==
    /\ rev = "current"
    /\ pc = "payload"
    /\ it > Len(buffer[self])
    /\ it' = 0
    /\ pc' = "flush_payload"
    /\ UNCHANGED <<rev, platform, buffer, fd, stdio, text_io, self, ret, exc,
                   status, oplog>>
    /\ UNCHANGED <<lastEmit, broken, faults>>

\* line 37: stdio.flush()
FlushPayload ==
    /\ rev = "current"
    /\ pc = "flush_payload"
    /\ fd' = [fd EXCEPT ![self] = @ \o stdio]
    /\ stdio' = <<>>
    /\ pc' = "close"
    /\ UNCHANGED <<rev, platform, buffer, text_io, self, it, ret, exc, status,
                   oplog>>
    /\ UNCHANGED <<lastEmit, broken, faults>>

\* line 31: leaving the with block closes stdio, which flushes what is
\* pending and keeps the descriptor open (closefd=False)
CloseStdio ==
    /\ rev = "current"
    /\ pc = "close"
    /\ fd' = [fd EXCEPT ![self] = @ \o stdio]
    /\ stdio' = <<>>
    /\ IF exc = "none"
          THEN /\ pc' = "clear"
               /\ UNCHANGED self
          ELSE /\ pc' = "raised"
               /\ self' = "none"
    /\ UNCHANGED <<rev, platform, buffer, text_io, it, ret, exc, status, oplog>>
    /\ lastEmit' = [lastEmit EXCEPT ![self].outcome =
                        IF exc = "none" THEN @ ELSE "raised"]
    /\ broken' = [broken EXCEPT ![self] = @ \/ exc = "OSError"]
    /\ UNCHANGED faults

\* a variant of line 39 that leaves the buffer as it is
NotCleared(buf) == buf

\* line 39: self.buffer.clear()
Cleared(buf) == <<>>

ClearBuffer ==
    /\ rev = "current"
    /\ pc = "clear"
    /\ buffer' = [buffer EXCEPT ![self] = Cleared(@)]
    /\ ret' = None
    /\ self' = "none"
    /\ pc' = "idle"
    /\ UNCHANGED <<rev, platform, fd, stdio, text_io, it, exc, status, oplog>>
    /\ lastEmit' = [lastEmit EXCEPT ![self].outcome = "returned"]
    /\ UNCHANGED <<broken, faults>>

-----------------------------------------------------------------------------
(* Legacy revision: src/lang_helpers/python.py *)

\* line 15
LegacyWriteReturn(s) == <<Len(s.v)>>

\* lines 14-15: the object is stored as given
LegacyWrite(c, s) ==
    /\ rev = "legacy"
    /\ CanCall
    /\ oplog' = Logged(c, "write", s)
    /\ buffer' = [buffer EXCEPT ![c] = Append(@, s)]
    /\ ret' = LegacyWriteReturn(s)
    /\ UNCHANGED <<rev, platform, fd, stdio, text_io, pc, self, it, exc, status>>
    /\ UNCHANGED <<lastEmit, broken, faults>>

\* lines 17-19
LegacyFlush(c) ==
    /\ rev = "legacy"
    /\ CanCall
    /\ oplog' = Logged(c, "flush", NoArg)
    /\ ret' = None
    /\ UNCHANGED <<rev, platform, buffer, fd, stdio, text_io, pc, self, it, exc,
                   status>>
    /\ UNCHANGED <<lastEmit, broken, faults>>

\* line 26: the call, and os.fdopen(self.text_io.fileno(), "wb", closefd=False)
LegacyRealFlush(c) ==
    /\ rev = "legacy"
    /\ CanCall
    /\ oplog' = Logged(c, "real_flush", NoArg)
    /\ self' = c
    /\ stdio' = <<>>
    /\ pc' = "pack"
    /\ UNCHANGED <<rev, platform, buffer, fd, text_io, it, ret, exc, status>>
    /\ lastEmit' = [lastEmit EXCEPT ![c] = [mark |-> Len(fd[c]), outcome |-> "running"]]
    /\ UNCHANGED <<broken, faults>>

\* line 27: the length that is packed is len(self.buffer)
LegacyDeclaredLength(buf) == Len(buf)

\* line 27: stdio.write(struct.pack('L', len(self.buffer)))
LegacyPackLength ==
    /\ rev = "legacy"
    /\ pc = "pack"
    /\ IF PackFits(LegacyDeclaredLength(buffer[self]), platform.longsize)
          THEN /\ stdio' = stdio \o PackL(LegacyDeclaredLength(buffer[self]),
                                          platform.longsize)
               /\ pc' = "flush_len"
               /\ UNCHANGED exc
          ELSE /\ exc' = "struct.error"
               /\ pc' = "close"
               /\ UNCHANGED stdio
    /\ UNCHANGED <<rev, platform, buffer, fd, text_io, self, it, ret, status,
                   oplog>>
    /\ UNCHANGED <<lastEmit, broken, faults>>

\* line 28: stdio.flush()
LegacyFlushLength ==
    /\ rev = "legacy"
    /\ pc = "flush_len"
    /\ fd' = [fd EXCEPT ![self] = @ \o stdio]
    /\ stdio' = <<>>
    /\ pc' = "close"
    /\ UNCHANGED <<rev, platform, buffer, text_io, self, it, ret, exc, status,
                   oplog>>
    /\ UNCHANGED <<lastEmit, broken, faults>>

\* line 26: leaving the with block closes stdio
LegacyCloseStdio ==
    /\ rev = "legacy"
    /\ pc = "close"
    /\ fd' = [fd EXCEPT ![self] = @ \o stdio]
    /\ stdio' = <<>>
    /\ IF exc = "none"
          THEN /\ pc' = "join"
               /\ UNCHANGED self
          ELSE /\ pc' = "raised"
               /\ self' = "none"
    /\ UNCHANGED <<rev, platform, buffer, text_io, it, ret, exc, status, oplog>>
    /\ lastEmit' = [lastEmit EXCEPT ![self].outcome =
                        IF exc = "none" THEN @ ELSE "raised"]
    /\ broken' = [broken EXCEPT ![self] = @ \/ exc = "OSError"]
    /\ UNCHANGED faults

\* "".join(self.buffer) accepts str items only (TypeError otherwise)
Joinable(buf) == \A i \in 1..Len(buf) : buf[i].kind = "str"

RECURSIVE Join(_)
Join(buf) == IF buf = <<>> THEN <<>> ELSE Head(buf).v \o Join(Tail(buf))

\* the text layer of the wrapped stream: on a platform whose line separator
\* is "\r\n" every "\n" is written as "\r\n"; the result is encoded (UTF-8)
RECURSIVE TranslateNewlines(_)
TranslateNewlines(cps) ==
    IF cps = <<>> THEN <<>>
    ELSE (IF Head(cps) = 10 THEN <<13, 10>> ELSE <<Head(cps)>>)
         \o TranslateNewlines(Tail(cps))

TextLayer(cps, p) ==
    Utf8Encode(IF p.crlf THEN TranslateNewlines(cps) ELSE cps)

\* line 30: self.text_io.write("".join(self.buffer))
LegacyWriteText ==
    /\ rev = "legacy"
    /\ pc = "join"
    /\ IF Joinable(buffer[self])
          THEN /\ text_io' = [text_io EXCEPT ![self] =
                                 @ \o TextLayer(Join(buffer[self]), platform)]
               /\ pc' = "flush_text"
               /\ UNCHANGED <<exc, self>>
          ELSE /\ exc' = "TypeError"
               /\ pc' = "raised"
               /\ self' = "none"
               /\ UNCHANGED text_io
    /\ UNCHANGED <<rev, platform, buffer, fd, stdio, it, ret, status, oplog>>
    /\ lastEmit' = [lastEmit EXCEPT ![self].outcome =
                        IF Joinable(buffer[self]) THEN @ ELSE "raised"]
    /\ UNCHANGED <<broken, faults>>

\* line 31: self.text_io.flush(); the buffer is left as it is
LegacyFlushText ==
    /\ rev = "legacy"
    /\ pc = "flush_text"
    /\ fd' = [fd EXCEPT ![self] = @ \o text_io[self]]
    /\ text_io' = [text_io EXCEPT ![self] = <<>>]
    /\ ret' = None
    /\ self' = "none"
    /\ pc' = "idle"
    /\ UNCHANGED <<rev, platform, buffer, stdio, it, exc, status, oplog>>
    /\ lastEmit' = [lastEmit EXCEPT ![self].outcome = "returned"]
    /\ UNCHANGED <<broken, faults>>

-----------------------------------------------------------------------------
(* The running program around the helpers *)

\* the program raises an error
ProgramRaises ==
    /\ pc = "idle"
    /\ exc' = "Exception"
    /\ pc' = "raised"
    /\ UNCHANGED <<rev, platform, buffer, fd, stdio, text_io, self, it, ret,
                   status, oplog>>
    /\ UNCHANGED <<lastEmit, broken, faults>>

\* the caller handles an exception that a helper method raised
Catch ==
    /\ pc = "raised"
    /\ exc # "Exception"
    /\ exc' = "none"
    /\ pc' = "idle"
    /\ UNCHANGED <<rev, platform, buffer, fd, stdio, text_io, self, it, ret,
                   status, oplog>>
    /\ UNCHANGED <<lastEmit, broken, faults>>

\* nothing handles the exception: no hook is installed by lines 42-45, so the
\* interpreter's default excepthook prints the report through sys.stderr,
\* which is the helper (write, then the no-op flush), and the process exits 1
Excepthook ==
    /\ pc = "raised"
    /\ buffer' = [buffer EXCEPT !["stderr"] =
                     Append(@, IF rev = "current" THEN ToBytes(TracebackText)
                               ELSE TracebackText)]
    /\ oplog' = Logged("stderr", "write", TracebackText)
    /\ ret' = None
    /\ status' = 1
    /\ pc' = "exited"
    /\ UNCHANGED <<rev, platform, fd, stdio, text_io, self, it, exc>>
    /\ UNCHANGED <<lastEmit, broken, faults>>

\* the program ends normally; interpreter shutdown calls flush() on
\* sys.stdout and sys.stderr, which is the no-op
ProgramExit ==
    /\ pc = "idle"
    /\ status' = 0
    /\ pc' = "exited"
    /\ UNCHANGED <<rev, platform, buffer, fd, stdio, text_io, self, it, ret,
                   exc, oplog>>
    /\ UNCHANGED <<lastEmit, broken, faults>>

Next ==
    \/ \E c \in Channels, s \in DataValues : Write(c, s)
    \/ \E c \in Channels : Flush(c)
    \/ \E c \in Channels : RealFlush(c)
    \/ PackLength
    \/ FlushLength
    \/ WritePiece
    \/ EndLoop
    \/ FlushPayload
    \/ CloseStdio
    \/ ClearBuffer
    \/ \E c \in Channels, s \in DataValues : LegacyWrite(c, s)
    \/ \E c \in Channels : LegacyFlush(c)
    \/ \E c \in Channels : LegacyRealFlush(c)
    \/ LegacyPackLength
    \/ LegacyFlushLength
    \/ LegacyCloseStdio
    \/ LegacyWriteText
    \/ LegacyFlushText
    \/ ProgramRaises
    \/ Catch
    \/ Excepthook
    \/ ProgramExit

Spec == Init /\ [][Next]_vars

-----------------------------------------------------------------------------
(* Transport failures: stdio.flush() raises OSError (lines 33, 37, 31) *)

\* a flush that fails after the descriptor took the first k pending bytes;
\* the exception leaves the with block, whose exit closes stdio
FailingFlush(k) ==
    /\ k < Len(stdio)
    /\ fd' = [fd EXCEPT ![self] = @ \o SubSeq(stdio, 1, k)]
    /\ stdio' = SubSeq(stdio, k + 1, Len(stdio))
    /\ exc' = "OSError"

\* line 33 raises
FlushLengthFails ==
    /\ rev = "current"
    /\ pc = "flush_len"
    /\ faults < MaxFaults
    /\ faults' = faults + 1
    /\ \E k \in 0..Len(stdio) : FailingFlush(k)
    /\ pc' = "close"
    /\ UNCHANGED <<rev, platform, buffer, text_io, self, it, ret, status, oplog,
                   lastEmit, broken>>

\* line 37 raises
FlushPayloadFails ==
    /\ rev = "current"
    /\ pc = "flush_payload"
    /\ faults < MaxFaults
    /\ faults' = faults + 1
    /\ \E k \in 0..Len(stdio) : FailingFlush(k)
    /\ pc' = "close"
    /\ UNCHANGED <<rev, platform, buffer, text_io, self, it, ret, status, oplog,
                   lastEmit, broken>>

\* line 31: the flush that close() makes on leaving the with block fails as
\* well; what is still pending is dropped with the file object
CloseFails ==
    /\ rev = "current"
    /\ pc = "close"
    /\ exc = "OSError"
    /\ \E k \in 0..Len(stdio) :
          /\ k < Len(stdio)
          /\ fd' = [fd EXCEPT ![self] = @ \o SubSeq(stdio, 1, k)]
    /\ stdio' = <<>>
    /\ pc' = "raised"
    /\ self' = "none"
    /\ lastEmit' = [lastEmit EXCEPT ![self].outcome = "raised"]
    /\ broken' = [broken EXCEPT ![self] = TRUE]
    /\ UNCHANGED <<rev, platform, buffer, text_io, it, ret, exc, status, oplog,
                   faults>>

NextFault ==
    \/ Next
    \/ FlushLengthFails
    \/ FlushPayloadFails
    \/ CloseFails

SpecFault == Init /\ [][NextFault]_vars

-----------------------------------------------------------------------------
(* A second thread: write() called while the first thread is inside
   real_flush(); nothing in the class serializes the two (no lock) *)

\* lines 14-20 run by another thread between two steps of lines 31-39; the
\* history marks the write when it falls into a real_flush of its own channel
RacingWrite(c, s) ==
    /\ rev = "current"
    /\ self # "none"
    /\ pc \in {"pack", "flush_len", "payload", "flush_payload", "close", "clear"}
    /\ Len(oplog["stdout"]) + Len(oplog["stderr"]) < MaxOps
    /\ s.kind = "bytes" \/ Encodable(s.v)
    /\ buffer' = [buffer EXCEPT ![c] = BufferAppend(@, ToBytes(s))]
    /\ oplog' = Logged(c, IF c = self THEN "racing_write" ELSE "write", s)
    /\ UNCHANGED <<rev, platform, fd, stdio, text_io, pc, self, it, ret, exc,
                   status, lastEmit, broken, faults>>

NextConc ==
    \/ Next
    \/ \E c \in Channels, s \in DataValues : RacingWrite(c, s)

SpecConc == Init /\ [][NextConc]_vars

-----------------------------------------------------------------------------
(* Text that UTF-8 cannot encode *)

\* "h" followed by a lone surrogate (U+D800)
UnencodableText == Text(<<104, 55296>>)

NextEnc ==
    \/ Next
    \/ \E c \in Channels : Write(c, UnencodableText)

SpecEnc == Init /\ [][NextEnc]_vars

-----------------------------------------------------------------------------
(* Text with a newline *)

\* "a\n"
NewlineText == Text(<<97, 10>>)

NextNl ==
    \/ Next
    \/ \E c \in Channels : Write(c, NewlineText)
    \/ \E c \in Channels : LegacyWrite(c, NewlineText)

SpecNl == Init /\ [][NextNl]_vars

-----------------------------------------------------------------------------
(* Payloads too large to enumerate byte by byte.

   A piece of n bytes is held as the one-element sequence <<[run |-> n]>>,
   which stands for n bytes, and n is an unbounded integer as in Python:
   the sequence of its base-256 digits, low digit first, without high zero
   digits (so 0 is <<>>). The steps of real_flush that only move pieces are
   the ones above; the write and the packing of the length are restated on
   lengths. *)

Run(n) == <<[run |-> n]>>

RunLength(piece) == piece[1].run

RestOf(d) == IF d = <<>> THEN <<>> ELSE Tail(d)
LowDigit(d) == IF d = <<>> THEN 0 ELSE Head(d)

RECURSIVE AddWithCarry(_, _, _)
AddWithCarry(a, b, carry) ==
    IF a = <<>> /\ b = <<>>
        THEN (IF carry = 0 THEN <<>> ELSE <<carry>>)
    ELSE LET t == LowDigit(a) + LowDigit(b) + carry
         IN <<t % 256>> \o AddWithCarry(RestOf(a), RestOf(b), t \div 256)

BigAdd(a, b) == AddWithCarry(a, b, 0)

\* sum(len(s) for s in self.buffer), line 32
RECURSIVE BigSumLen(_)
BigSumLen(pieces) ==
    IF pieces = <<>> THEN <<>>
    ELSE BigAdd(RunLength(Head(pieces)), BigSumLen(Tail(pieces)))

\* a variant of the range check of struct.pack that accepts every value, so
\* that the low w bytes of a larger value are written
AlwaysFits(n, w) == TRUE

\* struct.pack('L', n) raises struct.error unless n < 2^(8*w)
BigPackFits(n, w) == Len(n) <= w

\* the w bytes of struct.pack('L', n), low byte first
BigPackL(n, w) == [i \in 1..w |-> IF i <= Len(n) THEN n[i] ELSE 0]

\* the lengths of the bytes objects written: 3, 2^31 - 1 and 2^31
BigLengths == { <<3>>, <<255, 255, 255, 127>>, <<0, 0, 0, 128>> }

\* lines 14-20 for a bytes object of n bytes
BigWrite(c, n) ==
    /\ rev = "current"
    /\ CanCall
    /\ oplog' = Logged(c, "write", Bytes(Run(n)))
    /\ buffer' = [buffer EXCEPT ![c] = BufferAppend(@, Run(n))]
    /\ ret' = <<n>>
    /\ UNCHANGED <<rev, platform, fd, stdio, text_io, pc, self, it, exc, status,
                   lastEmit, broken, faults>>

\* line 32: stdio.write(struct.pack('L', sum(len(s) for s in self.buffer)))
BigPackLength ==
    /\ rev = "current"
    /\ pc = "pack"
    /\ IF BigPackFits(BigSumLen(buffer[self]), platform.longsize)
          THEN /\ stdio' = stdio \o BigPackL(BigSumLen(buffer[self]),
                                             platform.longsize)
               /\ pc' = "flush_len"
               /\ UNCHANGED exc
          ELSE /\ exc' = "struct.error"
               /\ pc' = "close"
               /\ UNCHANGED stdio
    /\ UNCHANGED <<rev, platform, buffer, fd, text_io, self, it, ret, status,
                   oplog, lastEmit, broken, faults>>

NextBig ==
    \/ \E c \in Channels, n \in BigLengths : BigWrite(c, n)
    \/ \E c \in Channels : RealFlush(c)
    \/ BigPackLength
    \/ FlushLength
    \/ WritePiece
    \/ EndLoop
    \/ FlushPayload
    \/ CloseStdio
    \/ ClearBuffer
    \/ Catch
    \/ Excepthook

SpecBig == Init /\ [][NextBig]_vars

-----------------------------------------------------------------------------
(* The reader's side of the transport, and what the history prescribes *)

\* the value of a length field; fields whose value is beyond 2^24 are
\* reported as -1 (no stream of the model holds that many bytes)
FieldValue(b) ==
    IF \E i \in 4..Len(b) : b[i] # 0 THEN -1
    ELSE b[1] + 256 * b[2] + 65536 * b[3]

\* the w-byte little-endian field for a length n < 2^31
FieldOf(n, w) ==
    [i \in 1..w |-> IF i = 1 THEN n % 256
                    ELSE IF i = 2 THEN (n \div 256) % 256
                    ELSE IF i = 3 THEN (n \div 65536) % 256
                    ELSE IF i = 4 THEN (n \div 16777216) % 256
                    ELSE 0]

\* read frames off a stream: a w-byte length, then that many payload bytes;
\* rest is what is left when no complete frame can be read any more
RECURSIVE DecodeStream(_, _)
DecodeStream(t, w) ==
    IF Len(t) < w THEN [frames |-> <<>>, rest |-> t]
    ELSE LET n == FieldValue(SubSeq(t, 1, w))
         IN IF n < 0 \/ Len(t) - w < n THEN [frames |-> <<>>, rest |-> t]
            ELSE LET d == DecodeStream(SubSeq(t, w + n + 1, Len(t)), w)
                 IN [frames |-> <<[length |-> n,
                                   payload |-> SubSeq(t, w + 1, w + n)]>>
                                 \o d.frames,
                     rest |-> d.rest]

RECURSIVE EncodeFrames(_, _)
EncodeFrames(fs, w) ==
    IF fs = <<>> THEN <<>>
    ELSE FieldOf(Head(fs).length, w) \o Head(fs).payload
         \o EncodeFrames(Tail(fs), w)

Payloads(fs) == [i \in 1..Len(fs) |-> fs[i].payload]

WellFormed(t, w) == DecodeStream(t, w).rest = <<>>

\* the UTF-8/bytes form of a written value
BytesForm(s) == IF s.kind = "bytes" THEN s.v ELSE Utf8Encode(s.v)

\* the payloads a history prescribes: each real_flush closes a frame holding
\* the bytes forms of the writes since the previous real_flush, in order
RECURSIVE ExpectedPayloads(_, _)
ExpectedPayloads(log, acc) ==
    IF log = <<>> THEN <<>>
    ELSE IF Head(log).op = "write"
        THEN ExpectedPayloads(Tail(log), acc \o BytesForm(Head(log).arg))
    ELSE IF Head(log).op = "real_flush"
        THEN <<acc>> \o ExpectedPayloads(Tail(log), <<>>)
    ELSE ExpectedPayloads(Tail(log), acc)

WithoutFlush(log) == SelectSeq(log, LAMBDA e : e.op # "flush")

EmitCount(log) == Len(SelectSeq(log, LAMBDA e : e.op = "real_flush"))

\* no real_flush is in progress
AtRest == self = "none"

Current == rev = "current"

-----------------------------------------------------------------------------
(* Claims *)

\* C1: in the current revision, whenever no emit is in progress, the
\* transport of every channel holds exactly one frame per real_flush call, in
\* call order, and the payload of the k-th frame is the concatenation, in
\* write order, of the bytes forms of the writes made between the (k-1)-th
\* and the k-th real_flush: nothing is lost, duplicated or reordered.
C1_FramesAreTheWrites ==
    (Current /\ AtRest) =>
        \A c \in Channels :
            LET d == DecodeStream(fd[c], platform.longsize)
            IN /\ d.rest = <<>>
               /\ Payloads(d.frames) = ExpectedPayloads(oplog[c], <<>>)

\* C1 witness (scenario D with multi-byte text): "hé" and b"\x00\n" were
\* written, one emit followed, and one 5-byte frame is on the transport
C1_Witness ==
    /\ Current /\ AtRest
    /\ \E c \in Channels :
        /\ Len(oplog[c]) = 3
        /\ oplog[c][1].op = "write" /\ oplog[c][2].op = "write"
        /\ oplog[c][3].op = "real_flush"
        /\ fd[c] = FieldOf(5, platform.longsize) \o <<104, 195, 169, 0, 10>>

\* the bytes forms of the pieces a helper holds
BufferBytes(c) ==
    [i \in 1..Len(buffer[c]) |->
        IF Current THEN buffer[c][i] ELSE BytesForm(buffer[c][i])]

\* C2: in every revision, the length field that real_flush has written (and
\* is about to flush) equals the sum of the byte lengths of the buffered
\* pieces, the byte length of the payload that follows.
C2_LengthIsByteLength ==
    pc = "flush_len" => FieldValue(stdio) = Len(Concat(BufferBytes(self)))

\* C3: in every revision, a real_flush that returns on a channel with no
\* write since the previous real_flush has put exactly a zero length field
\* and no payload on the transport.
NoWriteSincePreviousEmit(log) ==
    /\ log # <<>>
    /\ Len(WithoutFlush(log)) >= 2
    /\ LET l == WithoutFlush(log)
       IN l[Len(l)].op = "real_flush" /\ l[Len(l) - 1].op = "real_flush"

EmittedByLast(c) == SubSeq(fd[c], lastEmit[c].mark + 1, Len(fd[c]))

C3_EmptyEmitIsZeroFrame ==
    \A c \in Channels :
        (/\ AtRest
         /\ lastEmit[c].outcome = "returned"
         /\ NoWriteSincePreviousEmit(oplog[c]))
        => EmittedByLast(c) = FieldOf(0, platform.longsize)

\* C4: in the current revision only real_flush releases bytes: a step that
\* is not part of a real_flush (write, flush, the program failing or ending)
\* leaves every transport as it is, and whenever no emit is in progress every
\* transport is a concatenation of complete frames.
C4_OnlyFramesOnTransport ==
    [][Current =>
          /\ (self = "none" /\ self' = "none") => fd' = fd
          /\ self' = "none" =>
                \A c \in Channels : WellFormed(fd'[c], platform.longsize)]_vars

\* C4 witness: the program died of an unhandled error with data written to
\* stdout and never emitted; the transports hold nothing of it
C4_Witness ==
    /\ Current /\ pc = "exited" /\ status = 1
    /\ buffer["stdout"] # <<>>
    /\ Concat(buffer["stdout"]) # <<>>
    /\ fd["stdout"] = <<>>
    /\ \E c \in Channels : oplog[c] # <<>> /\ oplog[c][Len(oplog[c])].op = "flush"

\* a flush call was made in this step
FlushStep ==
    \E c \in Channels :
        /\ Len(oplog'[c]) = Len(oplog[c]) + 1
        /\ oplog'[c][Len(oplog'[c])].op = "flush"

\* C5: in the current revision flush() changes neither a buffer nor a
\* transport nor anything pending, and the frames on a transport are those
\* prescribed by the history with its flush calls removed.
C5_FlushIsNoOp ==
    [][Current =>
          /\ FlushStep =>
                /\ buffer' = buffer /\ fd' = fd
                /\ stdio' = stdio /\ text_io' = text_io /\ pc' = pc
          /\ self' = "none" =>
                \A c \in Channels :
                    Payloads(DecodeStream(fd'[c], platform.longsize).frames)
                        = ExpectedPayloads(WithoutFlush(oplog'[c]), <<>>)]_vars

\* C5 witness: write, flush, write, real_flush on one channel gave one frame
C5_Witness ==
    /\ Current /\ AtRest
    /\ \E c \in Channels :
        /\ Len(oplog[c]) = 4
        /\ oplog[c][1].op = "write" /\ oplog[c][2].op = "flush"
        /\ oplog[c][3].op = "write" /\ oplog[c][4].op = "real_flush"
        /\ Len(DecodeStream(fd[c], platform.longsize).frames) = 1
        /\ fd[c] # FieldOf(0, platform.longsize)

\* the report of the unhandled error is inside payload p
Contains(p, r) ==
    \E i \in 0..(Len(p) - Len(r)) : SubSeq(p, i + 1, i + Len(r)) = r

\* C6: when the program has terminated through an unhandled error, the exit
\* status is non-zero, the error channel's transport ends with a frame that
\* contains the diagnostic report, and nothing is left unsent in the error
\* channel's buffer.
C6_ReportFrameThenExit ==
    (pc = "exited" /\ exc # "none") =>
        LET d == DecodeStream(fd["stderr"], platform.longsize)
        IN /\ status # 0
           /\ d.rest = <<>>
           /\ d.frames # <<>>
           /\ Contains(d.frames[Len(d.frames)].payload, BytesForm(TracebackText))
           /\ buffer["stderr"] = <<>>

\* a write call returned in this step
WriteReturned(c) ==
    /\ Len(oplog'[c]) = Len(oplog[c]) + 1
    /\ oplog'[c][Len(oplog'[c])].op = "write"
    /\ pc' = "idle"

\* C8: in both revisions write(data) returns the length of data as presented
\* (characters of text, bytes of binary data), whatever the buffer held and
\* however many bytes the encoded form takes.
C8_WriteReturnsPresentedLength ==
    [][\A c \in Channels :
          WriteReturned(c) =>
              ret' = <<Len(oplog'[c][Len(oplog'[c])].arg.v)>>]_vars

\* C8 witness: write("hé") on a non-empty buffer returned 2 and stored 3 bytes
C8_Witness ==
    /\ Current /\ pc = "idle" /\ ret = <<2>>
    /\ \E c \in Channels :
        /\ Len(buffer[c]) >= 2
        /\ buffer[c][Len(buffer[c])] = <<104, 195, 169>>
        /\ oplog[c][Len(oplog[c])].arg = Text(<<104, 233>>)

\* C9: in the current revision, whenever no emit is in progress, reading a
\* transport as frames (a fixed-width length, then that many bytes) leaves
\* no byte over, yields as many frames as real_flush was called, and
\* re-encoding the decoded (length, payload) pairs gives the transport's
\* bytes back.
C9_RoundTrip ==
    (Current /\ AtRest) =>
        \A c \in Channels :
            LET d == DecodeStream(fd[c], platform.longsize)
            IN /\ d.rest = <<>>
               /\ Len(d.frames) = EmitCount(oplog[c])
               /\ \A i \in 1..Len(d.frames) :
                     d.frames[i].length = Len(d.frames[i].payload)
               /\ EncodeFrames(d.frames, platform.longsize) = fd[c]

\* C9 witness: a transport holding two frames, of 3 and of 2 payload bytes
C9_Witness ==
    /\ Current /\ AtRest
    /\ \E c \in Channels :
        LET d == DecodeStream(fd[c], platform.longsize)
        IN /\ Len(d.frames) = 2
           /\ d.frames[1].payload = <<104, 195, 169>>
           /\ d.frames[2].payload = <<0, 10>>

\* EMPTY and ACCUMULATING
Accumulating(c) == buffer[c] # <<>>

WritesSinceLastEmit(log) ==
    \E i \in 1..Len(log) :
        /\ log[i].op = "write"
        /\ \A j \in (i + 1)..Len(log) : log[j].op # "real_flush"

\* C10: in the current revision, in every state in which the caller can make
\* a call both write (of bytes or encodable text) and real_flush can be
\* made, whether the channel is EMPTY or ACCUMULATING; a write leaves the
\* channel ACCUMULATING with one more piece and raises nothing, every
\* real_flush that returns leaves the channel EMPTY, and a channel is
\* ACCUMULATING, when no emit is in progress, only if a write was made since
\* the last real_flush.
C10_StateMachine ==
    [][Current =>
          \A c \in Channels :
              /\ CanCall =>
                    /\ ENABLED RealFlush(c)
                    /\ \A s \in DataValues :
                          (s.kind = "bytes" \/ Encodable(s.v))
                              => ENABLED Write(c, s)
              /\ WriteReturned(c) =>
                    /\ exc' = "none"
                    /\ Len(buffer'[c]) = Len(buffer[c]) + 1
              /\ (self = c /\ self' = "none") => ~Accumulating(c)'
              /\ (self' = "none" /\ Accumulating(c)')
                    => WritesSinceLastEmit(oplog'[c])]_vars

\* C10 witness: a channel that went EMPTY -> ACCUMULATING -> EMPTY and is
\* ACCUMULATING again
C10_Witness ==
    /\ Current /\ AtRest
    /\ \E c \in Channels :
        /\ Len(oplog[c]) = 3
        /\ oplog[c][1].op = "write" /\ oplog[c][2].op = "real_flush"
        /\ oplog[c][3].op = "write"
        /\ lastEmit[c].outcome = "returned"
        /\ Len(buffer[c]) = 1

\* C7: once a transport failure has aborted a real_flush on a channel and
\* left a half-delivered frame on its transport, no further byte reaches that
\* transport: the half-delivered frame is never followed by bytes of a
\* retried or later emit.
C7_NothingAfterFailedEmit ==
    [][\A c \in Channels :
          (broken[c] /\ ~WellFormed(fd[c], platform.longsize))
              => fd'[c] = fd[c]]_vars

\* the step is none of channel c's: no call is made on c and no real_flush
\* of c is in progress before or after it
NotAStepOf(c) ==
    /\ oplog'[c] = oplog[c]
    /\ self # c
    /\ self' # c

\* C11: a step of one channel (a write, a flush or any step of a real_flush)
\* leaves the other channel's buffer and transport unchanged, in both
\* revisions; and in the current revision the frames on a channel's
\* transport are those prescribed by the calls made on that channel alone,
\* however the calls on the two channels interleave.
C11_ChannelsAreIndependent ==
    [][\A c \in Channels :
          /\ NotAStepOf(c) => (buffer'[c] = buffer[c] /\ fd'[c] = fd[c])
          /\ (Current /\ self' = "none") =>
                Payloads(DecodeStream(fd'[c], platform.longsize).frames)
                    = ExpectedPayloads(oplog'[c], <<>>)]_vars

\* C11 witness: both channels were written and emitted, with different
\* data, and each transport holds its own frame
C11_Witness ==
    /\ Current /\ AtRest
    /\ fd["stdout"] = FieldOf(3, platform.longsize) \o <<104, 195, 169>>
    /\ fd["stderr"] = FieldOf(2, platform.longsize) \o <<0, 10>>

\* a write on c fell between two steps of a real_flush of c
Raced(c) == \E i \in 1..Len(oplog[c]) : oplog[c][i].op = "racing_write"

\* the frame that the latest real_flush on c put on the transport carries
\* more payload bytes than its length field declares
PayloadExceedsDeclared(c) ==
    /\ lastEmit[c].outcome = "returned"
    /\ Len(EmittedByLast(c)) >= platform.longsize
    /\ Len(EmittedByLast(c)) - platform.longsize
          > FieldValue(SubSeq(EmittedByLast(c), 1, platform.longsize))

\* bytes written on a channel according to its history
RECURSIVE WrittenBytes(_)
WrittenBytes(log) ==
    IF log = <<>> THEN 0
    ELSE (IF Head(log).op \in {"write", "racing_write"}
             THEN Len(BytesForm(Head(log).arg)) ELSE 0)
         + WrittenBytes(Tail(log))

\* bytes were written on c that are neither in a frame nor in the buffer
PieceLost(c) ==
    WrittenBytes(oplog[c])
        > (Len(fd[c]) - platform.longsize * EmitCount(oplog[c]))
          + Len(Concat(buffer[c]))

\* the transport of c does not read as one frame per real_flush
Desynchronized(c) ==
    LET d == DecodeStream(fd[c], platform.longsize)
    IN d.rest # <<>> \/ Len(d.frames) # EmitCount(oplog[c])

\* C12: with a second thread writing and nothing serializing it, a frame
\* whose payload is longer than its declared length, and a written piece
\* that is cleared without reaching any frame, are both reachable (the
\* witness), and the only way to either is a write that falls into a
\* real_flush in progress on the same channel: a channel without such a
\* write is, at rest, framed correctly and has lost nothing.
C12_UnsafeOnlyWhenRaced ==
    (Current /\ AtRest) =>
        \A c \in Channels :
            (Desynchronized(c) \/ PayloadExceedsDeclared(c) \/ PieceLost(c))
                => Raced(c)

\* C12 witness: one channel's latest frame carries more payload than it
\* declares, and the other channel has lost written bytes
C12_Witness ==
    /\ Current /\ AtRest
    /\ \E c, d \in Channels :
        /\ Raced(c) /\ PayloadExceedsDeclared(c)
        /\ Raced(d) /\ PieceLost(d)

\* text holding a lone surrogate, which has no UTF-8 form
HasLoneSurrogate(s) ==
    /\ s.kind = "str"
    /\ \E i \in 1..Len(s.v) : s.v[i] \in 55296..57343

\* the program calls write on c in this step
WriteCalled(c) ==
    /\ pc = "idle"
    /\ Len(oplog'[c]) = Len(oplog[c]) + 1
    /\ oplog'[c][Len(oplog'[c])].op = "write"

\* the history without the writes that were refused
WithoutRefused(log) ==
    SelectSeq(log, LAMBDA e : ~(e.op = "write" /\ HasLoneSurrogate(e.arg)))

\* C13: in the current revision a write of text that UTF-8 cannot encode
\* raises UnicodeEncodeError to the caller, returns nothing and leaves every
\* buffer and transport exactly as before the call; every other write
\* returns and has stored the bytes form of its data; and the frames on a
\* transport are those prescribed by the history without the refused writes,
\* so earlier writes are emitted intact by the next emit.
C13_EncodingFailureIsSurfaced ==
    [][Current =>
          \A c \in Channels :
              /\ WriteCalled(c) =>
                    LET s == oplog'[c][Len(oplog'[c])].arg
                    IN IF HasLoneSurrogate(s)
                          THEN /\ pc' = "raised"
                               /\ exc' = "UnicodeEncodeError"
                               /\ buffer' = buffer /\ fd' = fd /\ ret' = ret
                          ELSE /\ pc' = "idle"
                               /\ exc' = "none"
                               /\ buffer'[c] = Append(buffer[c], BytesForm(s))
                               /\ ret' = <<Len(s.v)>>
              /\ self' = "none" =>
                    Payloads(DecodeStream(fd'[c], platform.longsize).frames)
                        = ExpectedPayloads(WithoutRefused(oplog'[c]), <<>>)]_vars

\* C13 witness: "hé" was written, the write of unencodable text was refused
\* and handled by the caller, and the next emit delivered "hé" intact
C13_Witness ==
    /\ Current /\ AtRest /\ pc = "idle"
    /\ \E c \in Channels :
        /\ Len(oplog[c]) = 3
        /\ oplog[c][1] = [op |-> "write", arg |-> Text(<<104, 233>>)]
        /\ oplog[c][2] = [op |-> "write", arg |-> UnencodableText]
        /\ oplog[c][3].op = "real_flush"
        /\ fd[c] = FieldOf(3, platform.longsize) \o <<104, 195, 169>>
        /\ buffer[c] = <<>>

IsPrefix(a, b) == Len(a) <= Len(b) /\ SubSeq(b, 1, Len(a)) = a

\* the frame a real_flush of c has to deliver: the length of the buffered
\* bytes, then the buffered pieces in buffer order
FrameOf(c) ==
    FieldOf(Len(Concat(buffer[c])), platform.longsize) \o Concat(buffer[c])

\* C14: in the current revision, throughout a real_flush of c what has
\* reached the transport since the call, followed by what is pending, is a
\* prefix of the frame (the length field first, then the pieces in buffer
\* order), and no payload byte is on the transport without the whole length
\* field before it; the buffer is cleared only in a step before which the
\* complete frame is already on the transport with nothing pending; and when
\* real_flush has returned the complete frame is on the transport.
C14_LengthThenPayloadThenClear ==
    [][(Current /\ self # "none") =>
          /\ IsPrefix(EmittedByLast(self) \o stdio, FrameOf(self))
          /\ Len(EmittedByLast(self)) \in
                {0} \cup {n \in Nat : n >= platform.longsize}
          /\ buffer'[self] # buffer[self] =>
                /\ EmittedByLast(self) = FrameOf(self)
                /\ stdio = <<>>
                /\ buffer'[self] = <<>>
          /\ self' = "none" =>
                /\ lastEmit'[self].outcome = "returned"
                /\ SubSeq(fd'[self], lastEmit[self].mark + 1, Len(fd'[self]))
                      = FrameOf(self)
                /\ stdio' = <<>>
                /\ buffer'[self] = <<>>]_vars

\* C14 witness: real_flush has returned after b"\x00\n" and "hé" were
\* written; the length 5 and then the two pieces are on the transport
C14_Witness ==
    /\ Current /\ AtRest /\ pc = "idle"
    /\ \E c \in Channels :
        /\ lastEmit[c].outcome = "returned"
        /\ fd[c] = FieldOf(5, platform.longsize) \o <<0, 10, 104, 195, 169>>
        /\ buffer[c] = <<>>
        /\ stdio = <<>>

\* C15: in every revision, when a real_flush of c returns, the payload it
\* put on the transport after the length field is byte for byte the
\* concatenation of the bytes forms of the buffered pieces: nothing was
\* translated or transformed on the way, a newline is one byte.
C15_PayloadIsUntranslated ==
    [][\A c \in Channels :
          (self = c /\ self' = "none" /\ lastEmit'[c].outcome = "returned")
              => SubSeq(fd'[c], lastEmit[c].mark + platform.longsize + 1,
                        Len(fd'[c]))
                    = Concat(BufferBytes(c))]_vars

\* the number a length field holds, as digits without high zero digits
RECURSIVE FieldNumber(_)
FieldNumber(f) ==
    IF f = <<>> THEN <<>>
    ELSE IF f[Len(f)] = 0 THEN FieldNumber(SubSeq(f, 1, Len(f) - 1))
    ELSE f

\* the total byte length of the pieces a helper holds
RECURSIVE TotalBytes(_)
TotalBytes(pieces) ==
    IF pieces = <<>> THEN <<>>
    ELSE AddWithCarry(Head(pieces)[1].run, TotalBytes(Tail(pieces)), 0)

\* n >= 2^(8*w)
AtLeastTwoToThe(n, w) == Len(n) > w

\* C16: in the current revision the declared length never wraps: when the
\* buffered total is at least 2^(8*w), w the size in bytes of unsigned long,
\* the packing step raises struct.error with nothing written or pending, and
\* until the error has left real_flush no transport and no buffer changes;
\* when the total is below 2^(8*w) the w bytes that are written hold exactly
\* the total, and the field at the head of the frame of a returned
\* real_flush holds exactly the total.
C16_LengthNeverWraps ==
    [][(Current /\ self # "none") =>
          /\ (pc = "pack" /\ pc' # "pack") =>
                IF AtLeastTwoToThe(TotalBytes(buffer[self]), platform.longsize)
                   THEN /\ exc' = "struct.error"
                        /\ stdio' = <<>> /\ fd' = fd /\ buffer' = buffer
                   ELSE /\ exc' = "none"
                        /\ Len(stdio') = platform.longsize
                        /\ FieldNumber(stdio') = TotalBytes(buffer[self])
          /\ exc = "struct.error" =>
                /\ fd' = fd /\ buffer' = buffer /\ stdio' = <<>>
                /\ Len(fd[self]) = lastEmit[self].mark
          /\ (self' = "none" /\ lastEmit'[self].outcome = "returned") =>
                FieldNumber(SubSeq(fd'[self], lastEmit[self].mark + 1,
                                   lastEmit[self].mark + platform.longsize))
                    = TotalBytes(buffer[self])]_vars

\* C16 witness: two pieces of 2^31 bytes are buffered where unsigned long
\* has 4 bytes; real_flush raised struct.error, nothing is on the transport
\* and the two pieces are still buffered
C16_Witness ==
    /\ Current /\ pc = "raised" /\ exc = "struct.error"
    /\ platform.longsize = 4
    /\ \E c \in Channels :
        /\ lastEmit[c].outcome = "raised"
        /\ buffer[c] = <<Run(<<0, 0, 0, 128>>), Run(<<0, 0, 0, 128>>)>>
        /\ fd[c] = <<>>
        /\ stdio = <<>>

====
